---- MODULE Spec2Model ----
(***************************************************************************)
(* State-machine model of the Seplos V3 bus sniffer adapter                *)
(* (class SeplosV3Sniffer): stream framer, CRC validator, packet handler   *)
(* with its per-key update gate, and the adapter lifecycle around them.    *)
(* JavaScript arrays are 0-based; sequences here are 1-based, so the       *)
(* source's buffer[i] is At(buffer, i).                                    *)
(***************************************************************************)
EXTENDS Integers, Sequences, FiniteSets, TLC

VARIABLES
    buffer,            \* this.buffer: the framer's working buffer
    lastUpdate,        \* this.lastUpdate: object id -> last gate timestamp
    knownIds,          \* this.knownIds: array of ids already created
    updateInterval,    \* this.updateInterval (ms)
    lastDataReceived,  \* this.lastDataReceived (ms)
    isShuttingDown,    \* this.isShuttingDown
    serialPort,        \* this.serialPort: NULL or "open"
    socket,            \* this.socket: NULL, "open" or "closed"
    reconnectTimeout,  \* this.reconnectTimeout: NULL, "armed" or "fired"
    destroyed,         \* a destroyed socket has yet to emit its 'close' event
    timers,            \* number of pending timers that will call connectTcp
    dataCheckInterval, \* this.dataCheckInterval: NoTimer, or <<when it is due next>>
    ready,             \* the host has emitted 'ready' and onReady has run
    connection,        \* host state info.connection
    states,            \* host states written by setState(key, ...): id -> record
    packets,           \* processPacket invocations suspended at an await
    clock,             \* Date.now()
    glitches,          \* number of 'data' events that carried noise or damaged frames
    stream,            \* observation: the most recent processStream call
    gate,              \* observation: gate decisions of the most recent packet step
    lastAccept         \* observation: id -> time of its last accepted gate attempt

vars == <<buffer, lastUpdate, knownIds, updateInterval, lastDataReceived,
          isShuttingDown, serialPort, socket, reconnectTimeout, destroyed,
          timers, dataCheckInterval, ready, connection, states, packets, clock, glitches,
          stream, gate, lastAccept>>

NULL == "null"

-----------------------------------------------------------------------------
(* Bounds of the model *)

MaxGlitches == 1     \* 'data' events with noise or damaged frames in a run
MaxInflight == 1     \* processPacket invocations in flight at once
MaxClock == 15000    \* the clock does not advance beyond this many ms

-----------------------------------------------------------------------------
(* JavaScript integer operators on non-negative integers *)

\* a & b, a | b and a ^ b, bit by bit
RECURSIVE BitwiseSlow(_, _, _)
BitwiseSlow(a, b, op) ==
    IF a = 0 /\ b = 0 THEN 0
    ELSE 2 * BitwiseSlow(a \div 2, b \div 2, op)
         + (CASE op = "and" -> (a % 2) * (b % 2)
              [] op = "or"  -> IF a % 2 = 1 \/ b % 2 = 1 THEN 1 ELSE 0
              [] op = "xor" -> ((a % 2) + (b % 2)) % 2)

\* the same on 4-bit digits, tabulated once
AndDigit == [a \in 0..15 |-> [b \in 0..15 |-> BitwiseSlow(a, b, "and")]]
OrDigit == [a \in 0..15 |-> [b \in 0..15 |-> BitwiseSlow(a, b, "or")]]
XorDigit == [a \in 0..15 |-> [b \in 0..15 |-> BitwiseSlow(a, b, "xor")]]

RECURSIVE BitXor(_, _)
BitXor(a, b) ==
    IF a = 0 THEN b
    ELSE IF b = 0 THEN a
    ELSE 16 * BitXor(a \div 16, b \div 16) + XorDigit[a % 16][b % 16]

RECURSIVE BitAnd(_, _)
BitAnd(a, b) ==
    IF a = 0 \/ b = 0 THEN 0
    ELSE 16 * BitAnd(a \div 16, b \div 16) + AndDigit[a % 16][b % 16]

RECURSIVE BitOr(_, _)
BitOr(a, b) ==
    IF a = 0 THEN b
    ELSE IF b = 0 THEN a
    ELSE 16 * BitOr(a \div 16, b \div 16) + OrDigit[a % 16][b % 16]

Shr(a, n) == a \div (2 ^ n)
Shl(a, n) == a * (2 ^ n)

\* buffer[i] of the source (0-based)
At(buf, i) == buf[i + 1]

\* buffer.slice(0, n)
Slice(buf, n) == SubSeq(buf, 1, n)

-----------------------------------------------------------------------------
(* CRC engine *)

RECURSIVE CrcBits(_, _)
CrcBits(crc, j) ==
    IF j = 8 THEN crc
    ELSE CrcBits(IF BitAnd(crc, 1) # 0
                 THEN BitXor(Shr(crc, 1), 40961)    \* 0xa001
                 ELSE Shr(crc, 1),
                 j + 1)

\* the inner loop applied to each 16-bit value, tabulated once
CrcBitsOf == [crc \in 0..65535 |-> CrcBits(crc, 0)]

\* the outer loop over the bytes lo .. hi - 1 of data, entered with the value
\* crc; the range is halved so that the evaluation stays shallow
RECURSIVE CrcBytes(_, _, _, _)
CrcBytes(data, lo, hi, crc) ==
    IF hi <= lo THEN crc
    ELSE IF hi = lo + 1 THEN CrcBitsOf[BitXor(crc, At(data, lo))]
    ELSE LET mid == (lo + hi) \div 2
         IN CHOOSE r \in {CrcBytes(data, mid, hi, c) : c \in {CrcBytes(data, lo, mid, crc)}} :
                TRUE

\* a checksum that starts from 0 instead of 0xffff
calculateModbusCRCFromZero(data) == CrcBytes(data, 0, Len(data), 0)

calculateModbusCRC(data) == CrcBytes(data, 0, Len(data), 65535)    \* 0xffff

\* a validator that reads the received CRC high byte first
validateCRCHighFirst(buf, length) ==
    BitOr(Shl(At(buf, length - 2), 8), At(buf, length - 1))
        = calculateModbusCRC(Slice(buf, length - 2))

\* a validator that accepts every candidate
validateCRCAlways(buf, length) == TRUE

validateCRC(buf, length) ==
    LET receivedCRC == BitOr(Shl(At(buf, length - 1), 8), At(buf, length - 2))
        calculatedCRC == calculateModbusCRC(Slice(buf, length - 2))
    IN receivedCRC = calculatedCRC

-----------------------------------------------------------------------------
(* Frame synchronizer *)

\* a header test without the lower address limit
isValidHeaderNoLowerBound(buf) ==
    \/ /\ At(buf, 0) <= 16
       /\ At(buf, 1) = 4
       /\ (At(buf, 2) = 36 \/ At(buf, 2) = 52)
    \/ (At(buf, 0) <= 16 /\ At(buf, 1) = 1 /\ At(buf, 2) = 18)

\* a header test that looks at the address and the subtype only
isValidHeaderAnyFunction(buf) ==
    /\ At(buf, 0) >= 1
    /\ At(buf, 0) <= 16
    /\ At(buf, 2) \in {36, 52, 18}

isValidHeader(buf) ==
    \/ /\ At(buf, 0) >= 1
       /\ At(buf, 0) <= 16
       /\ At(buf, 1) = 4
       /\ (At(buf, 2) = 36 \/ At(buf, 2) = 52)
    \/ (At(buf, 0) >= 1 /\ At(buf, 0) <= 16 /\ At(buf, 1) = 1 /\ At(buf, 2) = 18)

\* a length that leaves out the two CRC bytes
getExpectedLengthNoTrailer(buf) ==
    IF At(buf, 2) = 36 THEN 39
    ELSE IF At(buf, 2) = 52 THEN 55
    ELSE IF At(buf, 1) = 1 /\ At(buf, 2) = 18 THEN 21
    ELSE 0

getExpectedLength(buf) ==
    IF At(buf, 2) = 36 THEN 41
    ELSE IF At(buf, 2) = 52 THEN 57
    ELSE IF At(buf, 1) = 1 /\ At(buf, 2) = 18 THEN 23
    ELSE 0

\* a resynchronisation step that drops two bytes
shiftTwo(buf) == IF Len(buf) >= 2 THEN Tail(Tail(buf)) ELSE <<>>

\* this.buffer.shift(): the buffer without its first byte
shift(buf) == Tail(buf)

\* the buffer a failed candidate leaves behind if it is kept for more bytes
KeepOnMismatch(buf, ok) == IF ok THEN <<>> ELSE buf

\* the buffer a failed candidate leaves behind if only its first byte is dropped
DropFirstOnMismatch(buf, ok) == IF ok THEN <<>> ELSE Tail(buf)

\* this.buffer = [] after a candidate was validated, whatever the outcome
AfterCandidate(buf, ok) == <<>>

\* one iteration of processStream's loop; st carries the buffer, the number of
\* bytes of data consumed, and what the call has validated and handed to
\* processPacket so far
StepByte(st, byte) ==
    LET buf == Append(st.buffer, byte) IN
    IF Len(buf) >= 5
    THEN IF ~isValidHeader(buf)
         THEN [st EXCEPT !.buffer = shift(buf), !.fed = @ + 1]
         ELSE LET expectedLength == getExpectedLength(buf) IN
              IF Len(buf) >= expectedLength
              THEN LET ok == validateCRC(buf, expectedLength) IN
                   [buffer    |-> AfterCandidate(buf, ok),
                    validated |-> Append(st.validated,
                                    [buf |-> buf, length |-> expectedLength, ok |-> ok,
                                     after |-> AfterCandidate(buf, ok), fed |-> st.fed + 1]),
                    fed       |-> st.fed + 1,
                    handed    |-> IF ok THEN Append(st.handed, Slice(buf, expectedLength))
                                  ELSE st.handed]
              ELSE [st EXCEPT !.buffer = buf, !.fed = @ + 1]
    ELSE [st EXCEPT !.buffer = buf, !.fed = @ + 1]

\* processStream's loop over the bytes lo .. hi - 1 of data, entered in the
\* state st; the range is halved so that the evaluation stays shallow
RECURSIVE Feed(_, _, _, _)
Feed(st, data, lo, hi) ==
    IF hi <= lo THEN st
    ELSE IF hi = lo + 1 THEN StepByte(st, At(data, lo))
    ELSE LET mid == (lo + hi) \div 2
         IN CHOOSE r \in {Feed(s, data, mid, hi) : s \in {Feed(st, data, lo, mid)}} : TRUE

\* a processStream that would start every call with an empty working buffer
FramedFromEmpty(buf, data) ==
    CHOOSE r \in {Feed(s, data, 0, Len(data)) :
                    s \in {[buffer |-> <<>>, validated |-> <<>>, handed |-> <<>>, fed |-> 0]}} :
        TRUE

\* the framing result of processStream(data) started with the buffer buf
Framed(buf, data) ==
    CHOOSE r \in {Feed(s, data, 0, Len(data)) :
                    s \in {[buffer |-> buf, validated |-> <<>>, handed |-> <<>>, fed |-> 0]}} :
        TRUE

-----------------------------------------------------------------------------
(* Frame decoder.  A numeric value v is kept exactly as the pair            *)
(* [n |-> v * per, per |-> per]; a text value is a string.                  *)

\* a 16-bit read that starts one byte late
readUInt16BELate(buf, off) == At(buf, off + 1) * 256 + At(buf, off + 2)

readUInt16BE(buf, off) == At(buf, off) * 256 + At(buf, off + 1)

\* a signed read that takes the top bit as a sign flag
readInt16BESignMagnitude(buf, off) ==
    LET u == readUInt16BE(buf, off) IN IF u >= 32768 THEN 32768 - u ELSE u

readInt16BE(buf, off) ==
    LET u == readUInt16BE(buf, off) IN IF u >= 32768 THEN u - 65536 ELSE u

Num(n, per) == [n |-> n, per |-> per]

\* a conversion that leaves out the offset between Kelvin and Celsius
CelsiusNoOffset(raw) == Num(10 * raw, 100)

\* raw / 10.0 - 273.15, in hundredths of a degree
Celsius(raw) == Num(10 * raw - 27315, 100)

bmsFolder(bmsIndex) == "bms_" \o ToString(bmsIndex)

Metric(folder, name, value, unit, role, ctype) ==
    [key |-> folder \o "." \o name, value |-> value, unit |-> unit,
     role |-> role, ctype |-> ctype]

\* the 0x24 branch: pack telemetry
Updates24(buf, f) ==
    << Metric(f, "pack_voltage", Num(readUInt16BE(buf, 3), 100), "V", "value.voltage", "number"),
       Metric(f, "current", Num(readInt16BE(buf, 5), 100), "A", "value.current", "number"),
       Metric(f, "remaining_capacity", Num(readUInt16BE(buf, 7), 100), "Ah", "value", "number"),
       Metric(f, "total_capacity", Num(readUInt16BE(buf, 9), 100), "AH", "value", "number"),
       Metric(f, "total_discharge_capacity", Num(readUInt16BE(buf, 11) * 10, 1), "AH", "value", "number"),
       Metric(f, "soc", Num(readUInt16BE(buf, 13), 10), "%", "value", "number"),
       Metric(f, "soh", Num(readUInt16BE(buf, 15), 10), "%", "value", "number"),
       Metric(f, "cycle_count", Num(readUInt16BE(buf, 17), 1), "cycles", "value", "number"),
       Metric(f, "average_cell_voltage", Num(readUInt16BE(buf, 19), 1000), "V", "value.voltage", "number"),
       Metric(f, "average_cell_temp", Celsius(readInt16BE(buf, 21)), "°C", "value.temperature", "number"),
       Metric(f, "max_cell_voltage", Num(readUInt16BE(buf, 23), 1000), "V", "value.voltage", "number"),
       Metric(f, "min_cell_voltage", Num(readUInt16BE(buf, 25), 1000), "V", "value.voltage", "number"),
       Metric(f, "max_cell_temp", Celsius(readUInt16BE(buf, 27)), "°C", "value.temperature", "number"),
       Metric(f, "min_cell_temp", Celsius(readUInt16BE(buf, 29)), "°C", "value.temperature", "number"),
       Metric(f, "maxdiscurt", Num(readUInt16BE(buf, 33), 1), "A", "value.current", "number"),
       Metric(f, "maxchgcurt", Num(readUInt16BE(buf, 35), 1), "A", "value.current", "number") >>

\* the 0x34 branch: cell detail
Updates34(buf, f) ==
    [c \in 1..16 |->
        Metric(f, "cell_" \o ToString(c) \o "_voltage",
               Num(readUInt16BE(buf, 2 * c + 1), 1000), "V", "value.voltage", "number")]
    \o [t \in 1..4 |->
        Metric(f, "cell_temp_" \o ToString(t),
               Celsius(readUInt16BE(buf, 2 * t + 33)), "°C", "value.temperature", "number")]
    \o << Metric(f, "case_temp", Celsius(readUInt16BE(buf, 51)), "°C", "value.temperature", "number"),
          Metric(f, "power_temp", Celsius(readUInt16BE(buf, 53)), "°C", "value.temperature", "number") >>

\* Array.prototype.join
RECURSIVE Join(_, _)
Join(strs, sep) ==
    IF Len(strs) = 0 THEN ""
    ELSE IF Len(strs) = 1 THEN strs[1]
    ELSE strs[1] \o sep \o Join(Tail(strs), sep)

\* a bit list that starts at the high bit
parseBitsHighFirst(byte, i) == BitAnd(Shr(byte, 7 - i), 1)

\* parseBits(byte)[i]
parseBits(byte, i) == BitAnd(Shr(byte, i), 1)

\* the cell numbers i + first pushed for the set bits i of byte, in bit order
RECURSIVE CellsFrom(_, _, _)
CellsFrom(byte, first, i) ==
    IF i = 8 THEN <<>>
    ELSE (IF parseBits(byte, i) # 0 THEN <<ToString(i + first)>> ELSE <<>>)
         \o CellsFrom(byte, first, i + 1)

Cells(byte, first) == CellsFrom(byte, first, 0)

NonEmpty(str) == str # ""

\* "Low: ..." and "High: ..." joined by " | ", empty parts left out
LowHighString(low, high) ==
    LET lowStr == IF Len(low) # 0 THEN "Low: " \o Join(low, ", ") ELSE ""
        highStr == IF Len(high) # 0 THEN "High: " \o Join(high, ", ") ELSE ""
    IN Join(SelectSeq(<<lowStr, highStr>>, NonEmpty), " | ")

\* system status byte (TB09): mask, label
SystemStatusTable ==
    << <<1, "Discharge">>, <<2, "Charge">>, <<4, "Floating Charge">>,
       <<8, "Full Charge">>, <<16, "Standy Mode">>, <<32, "Turn Off">> >>

\* FET event byte (TB07): mask, label
FETTable ==
    << <<1, "Discharge FET On">>, <<2, "Charge FET On">>,
       <<4, "Current Limiting FET On">>, <<8, "Heating On">> >>

\* event bytes in the order the source tests them: offset, mask, bucket, label
EventTable ==
    << <<12, 1, "A", "Cell High Voltage Alarm">>,
       <<12, 2, "P", "Cell Over Voltage Protection">>,
       <<12, 4, "A", "Cell Low Voltage Alarm">>,
       <<12, 8, "P", "Cell Under Voltage Protection">>,
       <<12, 16, "A", "Pack High Voltage Alarm">>,
       <<12, 32, "P", "Pack Over Voltage Protection">>,
       <<12, 64, "A", "Pack Low Voltage Alarm">>,
       <<12, 128, "P", "Pack Under Voltage Protection">>,
       <<13, 1, "A", "Charge High Temperature Alarm">>,
       <<13, 2, "P", "Charge High Temperature Protection">>,
       <<13, 4, "A", "Charge Low Temperature Alarm">>,
       <<13, 8, "P", "Charge Under Temperature Protection">>,
       <<13, 16, "A", "Discharge High Temperature Alarm">>,
       <<13, 32, "P", "Discharge Over Temperature Protection">>,
       <<13, 64, "A", "Discharge Low Temperature Alarm">>,
       <<13, 128, "P", "Discharge Under Temperature Protection">>,
       <<14, 1, "A", "High Environment Temperature Alarm">>,
       <<14, 2, "P", "Over Environment Temperature Protection">>,
       <<14, 4, "A", "Low Environment Temperature Alarm">>,
       <<14, 8, "P", "Under Environment Temperature Protection">>,
       <<14, 16, "A", "High Power Temperature Alarm">>,
       <<14, 32, "P", "Over Power Temperature Protection">>,
       <<14, 64, "A", "Cell Temperature Low Heating">>,
       <<15, 1, "A", "Charge Current Alarm">>,
       <<15, 2, "P", "Charge Over Current Protection">>,
       <<15, 4, "P", "Charge Second Level Current Protection">>,
       <<15, 8, "A", "Discharge Current Alarm">>,
       <<15, 16, "P", "Discharge Over Current Protection">>,
       <<15, 32, "P", "Discharge Second Level Over Current Protection">>,
       <<15, 64, "P", "Output Short Circuit Protection">>,
       <<16, 1, "A", "Output Short Latch Up">>,
       <<16, 4, "A", "Second Charge Latch Up">>,
       <<16, 8, "A", "Second Discharge Latch Up">>,
       <<17, 4, "A", "SOC Alarm">>,
       <<17, 8, "P", "SOC Protection">>,
       <<17, 16, "A", "Cell Difference Alarm">>,
       <<19, 1, "A", "Low SOC Alarm">>,
       <<19, 2, "A", "Intermittent Charge">>,
       <<19, 4, "A", "External Switch Conrol">>,
       <<19, 8, "A", "Static Standy Sleep Mode">>,
       <<19, 16, "A", "History Data Recording">>,
       <<19, 32, "P", "Under SOC Protections">>,
       <<19, 64, "A", "Active Limited Current">>,
       <<19, 128, "A", "Passive Limited Current">>,
       <<20, 1, "P", "NTC Fault">>,
       <<20, 2, "P", "AFE Fault">>,
       <<20, 4, "P", "Charge Mosfet Fault">>,
       <<20, 8, "P", "Discharge Mosfet Fault">>,
       <<20, 16, "P", "Cell Fault">>,
       <<20, 32, "P", "Break Line Fault">>,
       <<20, 64, "P", "Key Fault">>,
       <<20, 128, "P", "Aerosol Alarm">> >>

\* a table lookup that reports the bits that are clear
RECURSIVE ByteLabelsWhenClear(_, _, _)
ByteLabelsWhenClear(byte, table, i) ==
    IF i > Len(table) THEN <<>>
    ELSE (IF BitAnd(byte, table[i][1]) = 0 THEN <<table[i][2]>> ELSE <<>>)
         \o ByteLabelsWhenClear(byte, table, i + 1)

\* the labels of one status byte whose mask bit is set, in table order
RECURSIVE ByteLabels(_, _, _)
ByteLabels(byte, table, i) ==
    IF i > Len(table) THEN <<>>
    ELSE (IF BitAnd(byte, table[i][1]) # 0 THEN <<table[i][2]>> ELSE <<>>)
         \o ByteLabels(byte, table, i + 1)

\* activeAlarms (bucket "A") or activeProtections (bucket "P")
RECURSIVE EventLabels(_, _, _)
EventLabels(buf, bucket, i) ==
    IF i > Len(EventTable) THEN <<>>
    ELSE (IF EventTable[i][3] = bucket /\ BitAnd(At(buf, EventTable[i][1]), EventTable[i][2]) # 0
          THEN <<EventTable[i][4]>> ELSE <<>>)
         \o EventLabels(buf, bucket, i + 1)

lowVoltageCells(buf) == Cells(At(buf, 3), 1) \o Cells(At(buf, 4), 9)
highVoltageCells(buf) == Cells(At(buf, 5), 1) \o Cells(At(buf, 6), 9)
lowTempCells(buf) == Cells(At(buf, 7), 1)
highTempCells(buf) == Cells(At(buf, 8), 1)
balancingCells(buf) == Cells(At(buf, 9), 1) \o Cells(At(buf, 10), 9)
systemStatus(buf) == ByteLabels(At(buf, 11), SystemStatusTable, 1)
FETEvent(buf) == ByteLabels(At(buf, 18), FETTable, 1)
activeAlarms(buf) == EventLabels(buf, "A", 1)
activeProtections(buf) == EventLabels(buf, "P", 1)

Text(folder, name, value) == Metric(folder, name, value, "undefined", "text", "string")

\* the 0x12 branch: alarm and status bit fields
Updates12(buf, f) ==
    << Text(f, "system_status", Join(systemStatus(buf), ", ")),
       Text(f, "active_balancing_cells", Join(balancingCells(buf), ", ")),
       Text(f, "cell_temperature_alarms", LowHighString(lowTempCells(buf), highTempCells(buf))),
       Text(f, "cell_voltage_alarms", LowHighString(lowVoltageCells(buf), highVoltageCells(buf))),
       Text(f, "FET_status", Join(FETEvent(buf), ", ")),
       Text(f, "active_alarms", Join(activeAlarms(buf), ", ")),
       Text(f, "active_protections", Join(activeProtections(buf), ", ")) >>

\* a decoder that yields records only once the device's channel is known
UpdatesOnceKnown(buf) ==
    LET f == bmsFolder(At(buf, 0) - 1) IN
    IF ~(\E n \in DOMAIN knownIds : knownIds[n] = f) THEN <<>>
    ELSE IF At(buf, 2) = 36 THEN Updates24(buf, f)
    ELSE IF At(buf, 2) = 52 THEN Updates34(buf, f)
    ELSE IF At(buf, 2) = 18 THEN Updates12(buf, f)
    ELSE <<>>

\* a dispatch that looks at the function byte as well
UpdatesByFunction(buf) ==
    LET f == bmsFolder(At(buf, 0) - 1) IN
    IF At(buf, 1) = 4 /\ At(buf, 2) = 36 THEN Updates24(buf, f)
    ELSE IF At(buf, 1) = 4 /\ At(buf, 2) = 52 THEN Updates34(buf, f)
    ELSE IF At(buf, 1) = 1 /\ At(buf, 2) = 18 THEN Updates12(buf, f)
    ELSE <<>>

\* Object.entries(updates): the records processPacket decodes, in insertion order
Updates(buf) ==
    LET f == bmsFolder(At(buf, 0) - 1) IN
    IF At(buf, 2) = 36 THEN Updates24(buf, f)
    ELSE IF At(buf, 2) = 52 THEN Updates34(buf, f)
    ELSE IF At(buf, 2) = 18 THEN Updates12(buf, f)
    ELSE <<>>

-----------------------------------------------------------------------------
(* Host and adapter state *)

dataTimeout == 10000

\* the period of dataCheckInterval, in ms
dataCheckPeriod == 5000

\* a timer handle that is null
NoTimer == <<>>

\* knownIds.includes(id)
Includes(ids, id) == \E n \in DOMAIN ids : ids[n] = id

\* a JavaScript object with no own properties
EmptyObject == [k \in {} |-> 0]

\* obj[key] = value
Put(obj, key, value) == [k \in DOMAIN obj \cup {key} |-> IF k = key THEN value ELSE obj[k]]

\* some continuation is queued as a microtask: it runs before any other event
MicrotaskPending == \E p \in DOMAIN packets : packets[p].wait = "tick"

\* a transport that can emit 'data': the serial port, or a socket that has not
\* emitted 'close'
TransportOpen == serialPort # NULL \/ socket = "open"

\* the record of the last step of a processPacket invocation: whether it came
\* back from the await that follows a recorded timestamp (resumed), for which
\* key and value, whether it called setState (emitted), and the decisions the
\* gate took afterwards
NoGate ==
    [decisions |-> <<>>, resumed |-> FALSE, emitted |-> FALSE, key |-> "", value |-> ""]

NoStream == [data |-> <<>>, before |-> <<>>, validated |-> <<>>, handed |-> <<>>]

\* the constructor
Init ==
    /\ buffer = <<>>
    /\ lastUpdate = EmptyObject
    /\ knownIds = <<>>
    /\ updateInterval = 5000
    /\ clock = 0
    /\ lastDataReceived = clock
    /\ isShuttingDown = FALSE
    /\ serialPort = NULL
    /\ socket = NULL
    /\ reconnectTimeout = NULL
    /\ destroyed = FALSE
    /\ timers = 0
    /\ dataCheckInterval = NoTimer
    /\ ready = FALSE
    /\ connection \in BOOLEAN
    /\ states = EmptyObject
    /\ packets = <<>>
    /\ glitches = 0
    /\ stream = NoStream
    /\ gate = NoGate
    /\ lastAccept = EmptyObject

-----------------------------------------------------------------------------
(* onReady *)

\* Number(config.update_interval) || 5, for a configured value that is a
\* number ("number"), missing or not numeric ("nan")
IntervalSeconds(cfg) ==
    IF cfg.kind = "number" /\ cfg.n # 0 THEN cfg.n ELSE 5

OnReady(interval, adapter) ==
    /\ ~ready
    /\ ~isShuttingDown
    /\ ready' = TRUE
    /\ updateInterval' = IntervalSeconds(interval) * 1000
    /\ connection' = FALSE
    /\ socket' = IF adapter = "tcp" THEN "open" ELSE socket
    /\ serialPort' = IF adapter = "serial" THEN "open" ELSE serialPort
    /\ dataCheckInterval' = IF adapter = "invalid" THEN NoTimer
                            ELSE <<clock + dataCheckPeriod>>
    /\ UNCHANGED <<reconnectTimeout, destroyed, timers,
                   buffer, lastUpdate, knownIds, lastDataReceived, isShuttingDown,
                   states, packets, clock, glitches, stream, gate, lastAccept>>

-----------------------------------------------------------------------------
(* ensureObjectExists and processPacket *)

\* an ensureObjectExists that would not look at the shutdown flag
EnsureWaitWhileUnloading(id) ==
    IF Includes(knownIds, id) THEN "tick" ELSE "io"

\* ensureObjectExists(id) up to its first await: it returns at once ("tick":
\* the caller resumes in a microtask) or calls setObjectNotExistsAsync ("io")
EnsureWait(id) ==
    IF isShuttingDown \/ Includes(knownIds, id) THEN "tick" ELSE "io"

\* processPacket(frame) up to its first await
Started(frame) ==
    [buffer |-> frame, pc |-> "folder", i |-> 0, now |-> 0,
     wait |-> EnsureWait(bmsFolder(At(frame, 0) - 1))]

\* the id whose ensureObjectExists the invocation pkt is awaiting
AwaitedId(pkt) ==
    IF pkt.pc = "folder" THEN bmsFolder(At(pkt.buffer, 0) - 1)
    ELSE Updates(pkt.buffer)[pkt.i].key

\* some frame was handed, whatever its device
FromAnyDevice(handed) == handed # <<>>

\* some handed frame comes from device index 0
FromMaster(handed) == \E n \in DOMAIN handed : At(handed[n], 0) - 1 = 0

\* a gate with one timestamp for all keys: it passes when no key was stamped
\* within the interval
GateShared(lu, key, now, interval) ==
    \A k \in DOMAIN lu : lu[k] = 0 \/ now - lu[k] >= interval

\* a gate that needs a prior timestamp to pass
GateNeverFirst(lu, key, now, interval) ==
    key \in DOMAIN lu /\ now - lu[key] >= interval

\* !this.lastUpdate[key] || now - this.lastUpdate[key] >= this.updateInterval
GatePasses(lu, key, now, interval) ==
    \/ ~(key \in DOMAIN lu /\ lu[key] # 0)
    \/ now - lu[key] >= interval

\* a gate that would record the timestamp only after the await that follows
\* the check
StampAfterAwait(lu, key, now) == lu

\* this.lastUpdate[key] = now, the statement that follows the check
Stamp(lu, key, now) == Put(lu, key, now)

\* the gate loop from entry i on, up to and including the first entry the gate
\* accepts; log collects the decisions taken
RECURSIVE Scan(_, _, _, _)
Scan(ups, i, now, log) ==
    IF i > Len(ups) THEN [i |-> i, log |-> log]
    ELSE LET key == ups[i].key
             pass == GatePasses(lastUpdate, key, now, updateInterval)
             d == [key |-> key, now |-> now, accepted |-> pass,
                   had |-> key \in DOMAIN lastUpdate,
                   entry |-> IF key \in DOMAIN lastUpdate THEN lastUpdate[key] ELSE 0,
                   known |-> key \in DOMAIN lastAccept,
                   prev |-> IF key \in DOMAIN lastAccept THEN lastAccept[key] ELSE 0]
         IN IF pass THEN [i |-> i, log |-> Append(log, d)]
            ELSE Scan(ups, i + 1, now, Append(log, d))

RemoveAt(seq, p) == SubSeq(seq, 1, p - 1) \o SubSeq(seq, p + 1, Len(seq))

\* the invocation p runs from the await it was suspended at to its next await
\* (or to its end)
Resume(p) ==
    /\ p \in DOMAIN packets
    /\ packets[p].wait = "tick"
    /\ LET pkt == packets[p]
           ups == Updates(pkt.buffer)
           emitting == pkt.pc = "emit"
           now == IF emitting THEN pkt.now ELSE clock
           emit == emitting /\ ~isShuttingDown
           r == Scan(ups, pkt.i + 1, now, <<>>)
       IN /\ states' = IF emit
                       THEN Put(states, ups[pkt.i].key,
                                [val |-> ups[pkt.i].value, ack |-> TRUE])
                       ELSE states
          /\ gate' = [decisions |-> r.log, resumed |-> emitting, emitted |-> emit,
                      key |-> IF emitting THEN ups[pkt.i].key ELSE "",
                      value |-> IF emitting THEN ups[pkt.i].value ELSE ""]
          /\ IF r.i > Len(ups)
             THEN /\ packets' = RemoveAt(packets, p)
                  /\ UNCHANGED <<lastUpdate, lastAccept>>
             ELSE /\ lastUpdate' = Stamp(lastUpdate, ups[r.i].key, now)
                  /\ lastAccept' = Put(lastAccept, ups[r.i].key, now)
                  /\ packets' = [packets EXCEPT ![p] =
                        [buffer |-> pkt.buffer, pc |-> "emit", i |-> r.i, now |-> now,
                         wait |-> EnsureWait(ups[r.i].key)]]
    /\ stream' = NoStream
    /\ UNCHANGED <<reconnectTimeout, destroyed, timers,
                   buffer, knownIds, updateInterval, lastDataReceived, isShuttingDown,
                   serialPort, socket, dataCheckInterval, ready, connection, clock,
                   glitches>>

\* setObjectNotExistsAsync of the invocation p settles: ensureObjectExists
\* pushes the id (ok) or logs the error, and its caller is resumed
IoComplete(p, ok) ==
    /\ p \in DOMAIN packets
    /\ packets[p].wait = "io"
    /\ ~MicrotaskPending
    /\ knownIds' = IF ok THEN Append(knownIds, AwaitedId(packets[p])) ELSE knownIds
    /\ packets' = [packets EXCEPT ![p].wait = "tick"]
    /\ gate' = NoGate
    /\ stream' = NoStream
    /\ UNCHANGED <<reconnectTimeout, destroyed, timers,
                   buffer, lastUpdate, updateInterval, lastDataReceived,
                   isShuttingDown, serialPort, socket, dataCheckInterval, ready,
                   connection, states, clock, glitches, lastAccept>>

-----------------------------------------------------------------------------
(* processStream, driven by the transport's 'data' event *)

RECURSIVE StartAll(_, _)
StartAll(handed, i) ==
    IF i > Len(handed) THEN <<>>
    ELSE <<Started(handed[i])>> \o StartAll(handed, i + 1)

\* the transport's 'data' event: processStream(data), with the synchronous
\* part of every processPacket call it makes; at most limit invocations are
\* followed at a time
Deliver(data, limit) ==
    /\ TransportOpen
    /\ ~MicrotaskPending
    /\ \E r \in {Framed(buffer, data)} :
          /\ Len(packets) + Len(r.handed) <= limit
          /\ buffer' = r.buffer
          /\ stream' = [data |-> data, before |-> buffer,
                        validated |-> r.validated, handed |-> r.handed]
          /\ packets' = packets \o StartAll(r.handed, 1)
          /\ lastDataReceived' = IF FromMaster(r.handed) THEN clock ELSE lastDataReceived
          /\ connection' = IF FromMaster(r.handed) THEN TRUE ELSE connection
    /\ gate' = NoGate
    /\ UNCHANGED <<reconnectTimeout, destroyed, timers,
                   lastUpdate, knownIds, updateInterval, isShuttingDown, serialPort,
                   socket, dataCheckInterval, ready, states, clock,
                   lastAccept>>

OnData(data) == Deliver(data, MaxInflight)

-----------------------------------------------------------------------------
(* connectTcp: the socket's 'close' event and the reconnect timer *)

\* this.clearTimeout(handle) on n pending timers: a pending timer is removed,
\* a timer that has fired is not touched
ClearTimeout(handle, n) == IF handle = "armed" THEN n - 1 ELSE n

\* the pending timers once this.setTimeout has returned the handle h
Pending(h, n) == IF h = "armed" THEN n + 1 ELSE n

\* a host whose setTimeout never grants a timer
SetTimeoutRefused == {NULL}

\* this.setTimeout of the host: the handle of a pending timer; a host that is
\* stopping the adapter may refuse the timer and return no handle
SetTimeout == IF isShuttingDown THEN {"armed", NULL} ELSE {"armed"}

\* the socket emits 'close': the handler arms reconnectTimeout and touches
\* nothing else
SocketClose ==
    /\ socket = "open"
    /\ ~MicrotaskPending
    /\ socket' = "closed"
    /\ \E h \in SetTimeout :
          /\ reconnectTimeout' = h
          /\ timers' = Pending(h, ClearTimeout(reconnectTimeout, timers))
    /\ gate' = NoGate
    /\ stream' = NoStream
    /\ UNCHANGED <<destroyed,
                   buffer, lastUpdate, knownIds, updateInterval, lastDataReceived,
                   isShuttingDown, serialPort, dataCheckInterval, ready, connection,
                   states, packets, clock, glitches, lastAccept>>

\* reconnectTimeout fires: connectTcp replaces this.socket by a new socket
ReconnectTcp ==
    /\ timers > 0
    /\ ~MicrotaskPending
    /\ socket' = "open"
    /\ timers' = timers - 1
    /\ reconnectTimeout' = IF timers = 1 /\ reconnectTimeout = "armed" THEN "fired"
                           ELSE reconnectTimeout
    /\ gate' = NoGate
    /\ stream' = NoStream
    /\ UNCHANGED <<destroyed,
                   buffer, lastUpdate, knownIds, updateInterval, lastDataReceived,
                   isShuttingDown, serialPort, dataCheckInterval, ready, connection,
                   states, packets, clock, glitches, lastAccept>>

\* the socket that onUnload destroyed emits 'close': its handler is still
\* registered and does not look at isShuttingDown
DestroyedClose ==
    /\ destroyed
    /\ ~MicrotaskPending
    /\ destroyed' = FALSE
    /\ \E h \in SetTimeout :
          /\ reconnectTimeout' = h
          /\ timers' = Pending(h, ClearTimeout(reconnectTimeout, timers))
    /\ gate' = NoGate
    /\ stream' = NoStream
    /\ UNCHANGED <<buffer, lastUpdate, knownIds, updateInterval, lastDataReceived,
                   isShuttingDown, serialPort, socket, dataCheckInterval, ready,
                   connection, states, packets, clock, glitches, lastAccept>>

-----------------------------------------------------------------------------
(* onUnload, the watchdog and the clock *)

OnUnload ==
    /\ ~isShuttingDown
    /\ ~MicrotaskPending
    /\ isShuttingDown' = TRUE
    /\ buffer' = <<>>
    /\ lastUpdate' = EmptyObject
    /\ serialPort' = NULL
    /\ socket' = NULL
    /\ destroyed' = (destroyed \/ socket = "open")
    /\ reconnectTimeout' = NULL
    /\ timers' = ClearTimeout(reconnectTimeout, timers)
    /\ dataCheckInterval' = NoTimer
    /\ knownIds' = <<>>
    /\ connection' = FALSE
    /\ gate' = NoGate
    /\ stream' = NoStream
    /\ UNCHANGED <<updateInterval, lastDataReceived, ready, states, packets, clock,
                   glitches, lastAccept>>

\* a watchdog that also fires when exactly dataTimeout has passed
ExpiredAtTimeout(now, last) == now - last >= dataTimeout

\* Date.now() - this.lastDataReceived > this.dataTimeout
Expired(now, last) == now - last > dataTimeout

\* a timer of the event loop has expired and its callback has not run yet
TimerDue == dataCheckInterval # NoTimer /\ clock >= dataCheckInterval[1]

\* the callback of dataCheckInterval, run when the interval has expired; the
\* interval is armed again
DataCheck ==
    /\ TimerDue
    /\ ~MicrotaskPending
    /\ connection' = IF Expired(clock, lastDataReceived) THEN FALSE ELSE connection
    /\ dataCheckInterval' = <<clock + dataCheckPeriod>>
    /\ UNCHANGED <<reconnectTimeout, destroyed, timers,
                   buffer, lastUpdate, knownIds, updateInterval, lastDataReceived,
                   isShuttingDown, serialPort, socket, ready,
                   states, packets, clock, glitches, stream, gate,
                   lastAccept>>

\* time passes; an expired timer runs before more time passes
Tick(d) ==
    /\ ~MicrotaskPending
    /\ ~TimerDue
    /\ clock + d <= MaxClock
    /\ clock' = clock + d
    /\ gate' = NoGate
    /\ stream' = NoStream
    /\ UNCHANGED <<reconnectTimeout, destroyed, timers,
                   buffer, lastUpdate, knownIds, updateInterval, lastDataReceived,
                   isShuttingDown, serialPort, socket, dataCheckInterval, ready,
                   connection, states, packets, glitches, lastAccept>>

-----------------------------------------------------------------------------
(* The bus: what the transport can receive *)

Fill(n, b) == [i \in 1..n |-> b]

\* a well-formed frame: header, payload, CRC low byte, CRC high byte
Frame(addr, fn, subtype, payload) ==
    LET body == <<addr, fn, subtype>> \o payload
        crc == calculateModbusCRC(body)
    IN body \o <<crc % 256, crc \div 256>>

\* pack telemetry of device 1: 52.00 V, -1.50 A, temperatures 24.95 C
Pack24 ==
    Frame(1, 4, 36, <<20, 80, 255, 106>> \o Fill(14, 0) \o <<11, 165>> \o Fill(4, 0)
                    \o <<11, 165, 11, 165>> \o Fill(8, 0))

\* cell detail of device 2
Cell34 == Frame(2, 4, 52, Fill(32, 12) \o Fill(8, 11) \o Fill(12, 0))

\* status of device 16, nothing set
Status12 == Frame(16, 1, 18, Fill(18, 0))

\* status of device 1: low-voltage cells 1 and 3, cell high voltage alarm
Alarm12 == Frame(1, 1, 18, <<5>> \o Fill(8, 0) \o <<1>> \o Fill(8, 0))

\* status of device 1 whose bit fields at offsets 8..10 read 01 01 12
Echo12 == Frame(1, 1, 18, Fill(5, 0) \o <<1, 1, 18>> \o Fill(10, 0))

\* as Echo12, with another last payload byte
Echo12b == Frame(1, 1, 18, Fill(5, 0) \o <<1, 1, 18>> \o Fill(9, 0) \o <<7>>)

ValidFrames == {Pack24, Cell34, Status12, Echo12}

\* the two bytes of a 16-bit register, high byte first
Reg(raw) == <<raw \div 256, raw % 256>>

\* pack telemetry of device 1 with the voltage register v, the current register
\* c and the register t in all three temperature fields
Telemetry(v, c, t) ==
    Frame(1, 4, 36, Reg(v) \o Reg(c) \o Fill(14, 0) \o Reg(t) \o Fill(4, 0)
                    \o Reg(t) \o Reg(t) \o Fill(8, 0))

\* cell detail of device 2 with the register v in all sixteen voltage fields
\* and the register t in all six temperature fields
CellDetail(v, t) ==
    Frame(2, 4, 52, [i \in 1..32 |-> Reg(v)[2 - (i % 2)]] \o [i \in 1..8 |-> Reg(t)[2 - (i % 2)]]
                    \o Fill(8, 0) \o Reg(t) \o Reg(t))

\* status of device 1 with the given eighteen status bytes
Status(bytes) == Frame(1, 1, 18, bytes)

\* register readings: voltage, current, temperature
Readings ==
    {<<5200, 65386, 2981>>, <<0, 0, 0>>, <<65535, 32767, 32767>>, <<1, 32768, 32768>>}

TelemetryFrames == {Telemetry(r[1], r[2], r[3]) : r \in Readings}

CellFrames == {CellDetail(3300, 2981), CellDetail(0, 0), CellDetail(65535, 65535)}

\* status bytes: nothing set; low-voltage cells 1 and 3 with the cell high
\* voltage alarm; every bit set; a mixed pattern
BitFieldFrames ==
    {Status(Fill(18, 0)),
     Status(<<5>> \o Fill(8, 0) \o <<1>> \o Fill(8, 0)),
     Status(Fill(18, 255)),
     Status(<<129, 24, 2, 64, 170, 85, 16, 128, 33, 254, 66, 36, 9, 10, 20, 5, 145, 72>>)}

NumericFrames == TelemetryFrames \cup CellFrames

DecodeFrames == NumericFrames \cup BitFieldFrames

\* f with its last payload byte changed
Corrupt(f) ==
    [i \in 1..Len(f) |-> IF i = Len(f) - 2 THEN (f[i] + 1) % 256 ELSE f[i]]

\* line noise: single bytes, and runs that imitate a header
Noise ==
    {<<0>>, <<1, 4, 36>>, <<1, 1, 18>>, <<1, 1, 36, 0, 0>>, <<17, 1, 18, 0, 0>>}

\* noise directly followed by a well-formed frame, in one burst
NoisyFrames ==
    {<<0>> \o Pack24, <<9, 9, 9, 9, 9, 9>> \o Pack24, <<1, 4, 36>> \o Pack24}

\* well-formed, CRC-valid frames that carry the addresses 0x00 and 0x11
StrayAddress == {Frame(0, 4, 36, Fill(36, 0)), Frame(17, 1, 18, Fill(18, 0))}

\* well-formed, CRC-valid frames whose function byte does not go with their
\* subtype
StrayFunction == {Frame(1, 1, 36, Fill(36, 0)), Frame(1, 4, 18, Fill(18, 0))}

\* what a tap that attaches in mid-frame or loses bytes sees of a frame
Partial == {SubSeq(Echo12, 9, 23), SubSeq(Pack24, 1, 20), SubSeq(Pack24, 21, 41)}

\* f with its two CRC bytes exchanged
Swapped(f) ==
    [i \in 1..Len(f) |-> IF i = Len(f) - 1 THEN f[Len(f)]
                         ELSE IF i = Len(f) THEN f[Len(f) - 1] ELSE f[i]]

\* frames damaged on the line, alone or directly followed by a good frame
Damaged == {Corrupt(Status12), Corrupt(Pack24) \o Pack24, Swapped(Status12)}

Glitches ==
    Noise \cup NoisyFrames \cup StrayAddress \cup StrayFunction \cup Partial \cup Damaged

\* a 'data' event that carries one well-formed frame
DataFrame(f) == OnData(f) /\ UNCHANGED glitches

\* a 'data' event that carries noise or damaged frames
DataGlitch(g) ==
    /\ glitches < MaxGlitches
    /\ glitches' = glitches + 1
    /\ OnData(g)

-----------------------------------------------------------------------------
(* Specifications *)

DefaultInterval == [kind |-> "nan", n |-> 0]

\* the framer under an arbitrary byte stream; no object creation settles
NextFramer ==
    \/ OnReady(DefaultInterval, "serial")
    \/ \E f \in ValidFrames : DataFrame(f)
    \/ \E g \in Glitches : DataGlitch(g)

SpecFramer == Init /\ [][NextFramer]_vars

ResyncFrames == ValidFrames \cup {Echo12b}

\* a tap that attached in mid-frame or saw damaged frames, and from then on
\* sees well-formed frames only
NextResync ==
    \/ OnReady(DefaultInterval, "serial")
    \/ \E f \in ResyncFrames : DataFrame(f)
    \/ \E g \in Glitches : DataGlitch(g)

\* the adapter gets ready, and the bus keeps delivering frames
SpecResync ==
    /\ Init
    /\ [][NextResync]_vars
    /\ WF_vars(OnReady(DefaultInterval, "serial"))
    /\ WF_vars(\E f \in ResyncFrames : DataFrame(f))

\* configured update intervals: missing, zero, ten seconds
Intervals == {DefaultInterval, [kind |-> "number", n |-> 0], [kind |-> "number", n |-> 10]}

\* status frames on the bus: two devices, and two readings of device 1
StatusFrames == {Alarm12, Echo12, Status12}

TickStep == 5000     \* the clock is observed in steps of this many ms

MaxBurst == 2        \* invocations in flight when frames follow each other closely

BurstClock == 5000   \* how long two frames that follow each other closely are observed

WatchStep == 2500    \* the clock steps under which the watchdog is observed

\* the adapter on a clean bus, with object creation, the clock, the watchdog
\* and shutdown
Next ==
    \/ \E cfg \in Intervals, adapter \in {"tcp", "invalid"} : OnReady(cfg, adapter)
    \/ \E f \in StatusFrames : DataFrame(f)
    \/ \E p \in 1..MaxInflight : Resume(p)
    \/ \E p \in 1..MaxInflight : IoComplete(p, TRUE)
    \/ OnUnload
    \/ DataCheck
    \/ Tick(TickStep)

Spec == Init /\ [][Next]_vars

\* processPacket on a clean bus, each frame handed over when the one before
\* it has been processed
Decoding(frames) ==
    \/ OnReady(DefaultInterval, "serial")
    \/ \E f \in frames : packets = <<>> /\ DataFrame(f)
    \/ \E p \in 1..MaxInflight : Resume(p)
    \/ \E p \in 1..MaxInflight : IoComplete(p, TRUE)

\* the decoder under pack telemetry and cell detail with a range of register
\* readings
NextNumeric == Decoding(NumericFrames)

SpecNumeric == Init /\ [][NextNumeric]_vars

\* the decoder under status frames with a range of bit patterns
NextStatus == Decoding(BitFieldFrames)

SpecStatus == Init /\ [][NextStatus]_vars

\* the frames the transport hands over in pieces
ChunkedFrames == {Alarm12, Corrupt(Alarm12)}

\* where the medium cuts a frame: inside the header, inside the payload
CutPoints == {2, 12}

\* what one 'data' event can carry: a whole frame, the bytes of a frame up to
\* a cut, or the bytes after it
Chunks ==
    ChunkedFrames
    \cup {SubSeq(f, 1, k) : f \in ChunkedFrames, k \in CutPoints}
    \cup {SubSeq(f, k + 1, Len(f)) : f \in ChunkedFrames, k \in CutPoints}

\* the transport delivers the byte stream in chunks of its own choosing
NextChunks ==
    \/ OnReady(DefaultInterval, "serial")
    \/ \E c \in Chunks : packets = <<>> /\ DataFrame(c)
    \/ \E p \in 1..MaxInflight : Resume(p)
    \/ \E p \in 1..MaxInflight : IoComplete(p, TRUE)
    \/ OnUnload

SpecChunks == Init /\ [][NextChunks]_vars

\* a TCP transport that delivers chunks, closes and is reconnected
NextReconnect ==
    \/ OnReady(DefaultInterval, "tcp")
    \/ \E c \in Chunks : packets = <<>> /\ DataFrame(c)
    \/ \E p \in 1..MaxInflight : Resume(p)
    \/ \E p \in 1..MaxInflight : IoComplete(p, TRUE)
    \/ SocketClose
    \/ ReconnectTcp

SpecReconnect == Init /\ [][NextReconnect]_vars

\* bursts whose first 23 bytes are a status candidate that fails the CRC check
Mismatched == {Corrupt(Alarm12), Swapped(Alarm12), Corrupt(Alarm12) \o <<0, 0>>}

\* the adapter on a bus that delivers a status frame of device 1 intact or
\* damaged, with object creation and the clock
NextMismatch ==
    \/ OnReady(DefaultInterval, "serial")
    \/ packets = <<>> /\ DataFrame(Alarm12)
    \/ \E g \in Mismatched : DataFrame(g)
    \/ \E p \in 1..MaxInflight : Resume(p)
    \/ \E p \in 1..MaxInflight : IoComplete(p, TRUE)
    \/ Tick(TickStep)

SpecMismatch == Init /\ [][NextMismatch]_vars

\* the watchdog over a bus that delivers status frames of device 1 (device
\* index 0) and of device 16 at any time, or stops delivering
NextWatchdog ==
    \/ OnReady(DefaultInterval, "serial")
    \/ \E f \in {Alarm12, Status12} : packets = <<>> /\ DataFrame(f)
    \/ \E p \in 1..MaxInflight : Resume(p)
    \/ \E p \in 1..MaxInflight : IoComplete(p, TRUE)
    \/ DataCheck
    \/ Tick(WatchStep)

SpecWatchdog == Init /\ [][NextWatchdog]_vars

\* the frame f arrives while the invocation for the frame before it awaits
\* the creation of the channel object
Overlap(f) ==
    /\ packets # <<>>
    /\ \A p \in DOMAIN packets : packets[p].pc = "folder"
    /\ glitches < MaxGlitches
    /\ glitches' = glitches + 1
    /\ Deliver(f, MaxBurst)

\* the first status frames of device 1 after the start follow each other
\* closely: the second is handed to processPacket while the invocation for
\* the first is still suspended
NextBurst ==
    \/ OnReady(DefaultInterval, "serial")
    \/ packets = <<>> /\ knownIds = <<>> /\ DataFrame(Alarm12)
    \/ \E f \in {Alarm12, Echo12} : Overlap(f)
    \/ \E p \in 1..MaxBurst : Resume(p)
    \/ \E p \in 1..MaxBurst : IoComplete(p, TRUE)
    \/ clock < BurstClock /\ Tick(TickStep)

SpecBurst == Init /\ [][NextBurst]_vars

\* values the configuration can hold for update_interval: missing or not
\* numeric, zero, ten, and a negative number
Configured == Intervals \cup {[kind |-> "number", n |-> -3]}

\* the adapter started under each configured interval, on a bus that delivers
\* a status frame of device 1
NextConfigured ==
    \/ \E cfg \in Configured : OnReady(cfg, "serial")
    \/ packets = <<>> /\ DataFrame(Alarm12)
    \/ \E p \in 1..MaxInflight : Resume(p)
    \/ \E p \in 1..MaxInflight : IoComplete(p, TRUE)
    \/ Tick(TickStep)

SpecConfigured == Init /\ [][NextConfigured]_vars

\* shutdown while the first status frames of device 1 are being processed,
\* with up to two invocations suspended
NextUnload ==
    \/ OnReady(DefaultInterval, "serial")
    \/ packets = <<>> /\ knownIds = <<>> /\ DataFrame(Alarm12)
    \/ \E f \in {Alarm12, Echo12} : Overlap(f)
    \/ \E p \in 1..MaxBurst : Resume(p)
    \/ \E p \in 1..MaxBurst : IoComplete(p, TRUE)
    \/ OnUnload

SpecUnload == Init /\ [][NextUnload]_vars

\* the decoder under one frame of each of the three kinds
NextDecode ==
    Decoding({Telemetry(5200, 65386, 2981), CellDetail(3300, 2981),
              Status(<<129, 24, 2, 64, 170, 85, 16, 128, 33, 254, 66, 36, 9, 10, 20, 5, 145, 72>>)})

SpecDecode == Init /\ [][NextDecode]_vars

\* a frame arrives while the invocation for an earlier frame has been waiting
\* for the creation of a state object for at least one update interval
Late(f) ==
    /\ Len(packets) = 1
    /\ packets[1].pc = "emit"
    /\ packets[1].wait = "io"
    /\ clock - packets[1].now >= updateInterval
    /\ glitches < MaxGlitches
    /\ glitches' = glitches + 1
    /\ Deliver(f, MaxBurst)

\* slow object creation on the first frames of device 1
NextLate ==
    \/ OnReady(DefaultInterval, "serial")
    \/ packets = <<>> /\ knownIds = <<>> /\ clock > 0 /\ DataFrame(Alarm12)
    \/ \E f \in {Alarm12, Echo12} : Late(f)
    \/ \E p \in 1..MaxBurst : Resume(p)
    \/ \E p \in 1..MaxBurst : IoComplete(p, TRUE)
    \/ Tick(TickStep)

SpecLate == Init /\ [][NextLate]_vars

\* the TCP transport from start to unload and beyond: the socket closes, the
\* reconnect timer fires, and the destroyed socket reports its 'close'
NextTcp ==
    \/ OnReady(DefaultInterval, "tcp")
    \/ packets = <<>> /\ DataFrame(Alarm12)
    \/ \E p \in 1..MaxInflight : Resume(p)
    \/ \E p \in 1..MaxInflight : IoComplete(p, TRUE)
    \/ SocketClose
    \/ ReconnectTcp
    \/ OnUnload
    \/ DestroyedClose

SpecTcp == Init /\ [][NextTcp]_vars

\* a TCP peer that sends nothing: connections are closed and retried while
\* the watchdog runs
NextRetry ==
    \/ OnReady(DefaultInterval, "tcp")
    \/ SocketClose
    \/ ReconnectTcp
    \/ OnUnload
    \/ DestroyedClose
    \/ DataCheck
    \/ Tick(WatchStep)

\* the host's event loop runs every timer that is due
SpecRetry == Init /\ [][NextRetry]_vars /\ WF_vars(ReconnectTcp)

-----------------------------------------------------------------------------
(* Frame synchronizer properties; stream is the record of the last         *)
(* processStream call                                                       *)

\* C1: processPacket is invoked only with a byte range that starts with a
\* header of the three known kinds, has exactly the length declared for its
\* subtype, and ends with the CRC of all preceding bytes; each decoded frame
\* is a candidate for which validateCRC returned true, and only those are
\* decoded.
C1_DecodedOnlyAfterCrc ==
    /\ \A i \in 1..Len(stream.handed) :
          LET f == stream.handed[i]
              n == Len(f)
          IN /\ n >= 5
             /\ f[1] \in 1..16
             /\ \/ (f[2] = 4 /\ f[3] = 36 /\ n = 41)
                \/ (f[2] = 4 /\ f[3] = 52 /\ n = 57)
                \/ (f[2] = 1 /\ f[3] = 18 /\ n = 23)
             /\ f[n - 1] + 256 * f[n] = calculateModbusCRC(SubSeq(f, 1, n - 2))
             /\ \E k \in 1..Len(stream.validated) :
                   /\ stream.validated[k].ok
                   /\ SubSeq(stream.validated[k].buf, 1, stream.validated[k].length) = f
    /\ Len(stream.handed)
          = Cardinality({k \in 1..Len(stream.validated) : stream.validated[k].ok})

\* a call that skipped six noise bytes and then decoded the frame behind them
C1_Witness ==
    /\ stream.data = <<9, 9, 9, 9, 9, 9>> \o Pack24
    /\ stream.handed = <<Pack24>>

\* C2: from an empty buffer, any noise bytes followed by one well-formed,
\* CRC-valid 41-byte frame of subtype 0x24 make processStream hand exactly
\* that frame to processPacket, once.
C2_NoiseThenFrame ==
    \A n \in 0..Len(stream.data) :
        LET f == SubSeq(stream.data, n + 1, Len(stream.data))
        IN (/\ stream.before = <<>>
            /\ Len(f) = 41
            /\ f[1] \in 1..16 /\ f[2] = 4 /\ f[3] = 36
            /\ f[40] + 256 * f[41] = calculateModbusCRC(SubSeq(f, 1, 39)))
           => stream.handed = <<f>>

\* C3: a candidate that fails the CRC check is not decoded and leaves the
\* buffer empty, exactly as a candidate that passes; every later candidate
\* is made of bytes that came after it; and whenever the buffer is empty and
\* the bytes that follow are a well-formed CRC-valid frame, that frame is the
\* next candidate and is decoded with exactly its own bytes.
C3_DiscardLeavesNothing ==
    LET v == stream.validated
        data == stream.data
        \* index in data of the first byte of candidate k (negative: it began
        \* in the buffer the call started with)
        first(k) == v[k].fed - Len(v[k].buf)
        \* the bytes of data from index pos on are a well-formed frame
        frameAt(pos) ==
            /\ pos + 5 <= Len(data)
            /\ LET hd == SubSeq(data, pos + 1, pos + 5)
                   len == getExpectedLength(hd)
               IN /\ isValidHeader(hd)
                  /\ pos + len <= Len(data)
                  /\ validateCRC(SubSeq(data, pos + 1, pos + len), len)
        lengthAt(pos) == getExpectedLength(SubSeq(data, pos + 1, pos + 5))
        \* the candidate after position pos is exactly the frame at pos
        decodedAt(pos, k) ==
            /\ k <= Len(v)
            /\ v[k].ok
            /\ v[k].buf = SubSeq(data, pos + 1, pos + lengthAt(pos))
            /\ \E h \in 1..Len(stream.handed) : stream.handed[h] = v[k].buf
    IN /\ \A k \in 1..Len(v) :
             /\ v[k].after = <<>>
             /\ Len(v[k].buf) = v[k].length
             /\ k > 1 => first(k) >= v[k - 1].fed
             /\ frameAt(v[k].fed) => decodedAt(v[k].fed, k + 1)
       /\ Len(stream.handed) = Cardinality({k \in 1..Len(v) : v[k].ok})
       /\ (stream.before = <<>> /\ frameAt(0)) => decodedAt(0, 1)
       /\ (Len(v) > 0 /\ v[Len(v)].fed = Len(data)) => buffer = <<>>

\* a corrupted frame was discarded and the good frame right behind it decoded
C3_Witness ==
    /\ stream.data = Corrupt(Pack24) \o Pack24
    /\ Len(stream.validated) = 2
    /\ ~stream.validated[1].ok
    /\ stream.handed = <<Pack24>>
    /\ buffer = <<>>

\* C8: every frame handed to processPacket has a device index (address - 1)
\* in 0..15, and no buffer whose first byte is 0x00 or above 0x10 is accepted
\* as a header, be it validated or still being collected.
C8_DeviceIndexRange ==
    /\ \A i \in 1..Len(stream.handed) : stream.handed[i][1] - 1 \in 0..15
    /\ \A i \in 1..Len(packets) : packets[i].buffer[1] - 1 \in 0..15
    /\ \A k \in 1..Len(stream.validated) : stream.validated[k].buf[1] \in 1..16
    /\ Len(buffer) >= 5 => buffer[1] \in 1..16

\* a CRC-valid frame with address 0x11 went through the framer undecoded
C8_Witness ==
    /\ stream.before = <<>>
    /\ stream.data = Frame(17, 1, 18, Fill(18, 0))
    /\ stream.validated = <<>>
    /\ stream.handed = <<>>

\* C10: every candidate given to validateCRC has a (function, subtype) pair
\* among (0x04,0x24), (0x04,0x34), (0x01,0x12) and is validated at exactly
\* 41, 57 and 23 bytes respectively; a buffer still being collected has such
\* a pair and is shorter than that length.
C10_ValidatedPairs ==
    LET Declared == {<<4, 36, 41>>, <<4, 52, 57>>, <<1, 18, 23>>}
    IN /\ \A k \in 1..Len(stream.validated) :
             LET c == stream.validated[k]
             IN /\ <<c.buf[2], c.buf[3], c.length>> \in Declared
                /\ Len(c.buf) = c.length
       /\ Len(buffer) >= 5 =>
             \E d \in Declared : buffer[2] = d[1] /\ buffer[3] = d[2] /\ Len(buffer) < d[3]

\* a cell-detail frame was validated at 57 bytes, after a byte of noise that
\* had stayed in the buffer
C10_Witness ==
    /\ stream.before = <<0>>
    /\ stream.data = Cell34
    /\ Len(stream.validated) = 1
    /\ stream.validated[1].length = 57
    /\ stream.validated[1].buf = Cell34
    /\ stream.validated[1].ok

\* the framer's states after each of the bytes lo .. hi - 1 of data, entered
\* in the state st; the range is halved so that the evaluation stays shallow
RECURSIVE Trail(_, _, _, _)
Trail(st, data, lo, hi) ==
    IF hi <= lo THEN <<>>
    ELSE IF hi = lo + 1 THEN <<StepByte(st, At(data, lo))>>
    ELSE LET mid == (lo + hi) \div 2
         IN CHOOSE r \in {left \o Trail(left[Len(left)], data, mid, hi) :
                            left \in {Trail(st, data, lo, mid)}} : TRUE

\* the framer's states during processStream(data) started with the buffer
\* before: entry n + 1 is the state after n iterations
Iterations(before, data) ==
    CHOOSE r \in {<<s>> \o Trail(s, data, 0, Len(data)) :
                    s \in {[buffer |-> before, validated |-> <<>>, handed |-> <<>>,
                            fed |-> 0]}} : TRUE

\* the framer's state after the first n bytes of the last processStream call
AfterBytes(n) == Iterations(stream.before, stream.data)[n + 1]

\* the first three bytes of buf are one of the three known headers
KnownHeader(buf) ==
    /\ buf[1] \in 1..16
    /\ <<buf[2], buf[3]>> \in {<<4, 36>>, <<4, 52>>, <<1, 18>>}

\* C11: an iteration of processStream that finds at least 5 bytes in the
\* buffer whose first three are not a valid header removes exactly the first
\* byte, keeps the other bytes and their order, and decodes nothing; a call
\* made only of such iterations and of iterations that collect fewer than 5
\* bytes changes no adapter state other than the buffer.
C11_DropsExactlyFirst ==
    [][stream'.data # <<>> =>
         \E it \in {Iterations(stream'.before, stream'.data)} :
            LET pushed(n) == Append(it[n].buffer, stream'.data[n])
                dropped(n) == Len(pushed(n)) >= 5 /\ ~KnownHeader(pushed(n))
                short(n) == Len(it[n].buffer) < 4
            IN /\ \A n \in 1..Len(stream'.data) :
                     dropped(n) =>
                        /\ Len(it[n + 1].buffer) = Len(pushed(n)) - 1
                        /\ \A k \in 1..Len(it[n + 1].buffer) :
                              it[n + 1].buffer[k] = pushed(n)[k + 1]
                        /\ it[n + 1].handed = it[n].handed
                        /\ it[n + 1].validated = it[n].validated
               /\ (\A n \in 1..Len(stream'.data) : dropped(n) \/ short(n)) =>
                     /\ stream'.handed = <<>>
                     /\ buffer' = it[Len(it)].buffer
                     /\ UNCHANGED <<lastUpdate, knownIds, updateInterval, lastDataReceived,
                                    isShuttingDown, serialPort, socket, dataCheckInterval,
                                    ready, connection, states, packets, clock, lastAccept>>]_vars

\* five bytes that imitate a header with a wrong function byte were taken in
\* and the first of them was dropped
C11_Witness ==
    /\ stream.before = <<>>
    /\ stream.data = <<1, 1, 36, 0, 0>>
    /\ buffer = <<1, 36, 0, 0>>
    /\ stream.handed = <<>>

\* C12: after every byte processStream has processed, the buffer holds at
\* most 56 bytes, and it either holds at most 4 bytes or begins with a valid
\* header and is shorter than the frame length declared for that header.
C12_BufferBounded ==
    LET Bounded(b) ==
            /\ Len(b) <= 56
            /\ \/ Len(b) <= 4
               \/ /\ KnownHeader(b)
                  /\ Len(b) < (CASE b[3] = 36 -> 41 [] b[3] = 52 -> 57 [] b[3] = 18 -> 23)
    IN /\ Bounded(buffer)
       /\ \E it \in {Iterations(stream.before, stream.data)} :
             /\ \A n \in DOMAIN it : Bounded(it[n].buffer)
             /\ buffer = it[Len(it)].buffer \/ stream.data = <<>>

\* a call that had collected 56 bytes of a cell-detail frame before the last
\* byte completed it
C12_Witness ==
    /\ stream.before = <<>>
    /\ stream.data = Cell34
    /\ Len(AfterBytes(56).buffer) = 56
    /\ buffer = <<>>

\* C13: validateCRC accepts a candidate exactly if its last byte times 256
\* plus its last byte but one equals calculateModbusCRC of all bytes before
\* these two; a candidate whose CRC bytes arrive in the other order is
\* rejected unless the two readings coincide.
C13_CrcLowByteFirst ==
    \A k \in 1..Len(stream.validated) :
        LET c == stream.validated[k]
            n == c.length
            body == SubSeq(c.buf, 1, n - 2)
        IN /\ n = Len(c.buf)
           /\ c.ok <=> (c.buf[n] * 256 + c.buf[n - 1] = calculateModbusCRC(body))
           /\ (c.buf[n - 1] * 256 + c.buf[n] = calculateModbusCRC(body) /\ c.buf[n] # c.buf[n - 1])
                 => ~c.ok

\* a frame whose CRC bytes were exchanged was validated and rejected
C13_Witness ==
    /\ stream.data = Swapped(Status12)
    /\ Len(stream.validated) = 1
    /\ ~stream.validated[1].ok
    /\ stream.handed = <<>>

-----------------------------------------------------------------------------
(* The Modbus CRC-16 as a shift register: sixteen bits, bit 0 the low bit  *)

\* bit i of the value v
BitOf(v, i) == (v \div (2 ^ i)) % 2 = 1

RegOf(v) == [i \in 0..15 |-> BitOf(v, i)]

RECURSIVE RegValueFrom(_, _)
RegValueFrom(reg, i) ==
    IF i = 16 THEN 0 ELSE (IF reg[i] THEN 2 ^ i ELSE 0) + RegValueFrom(reg, i + 1)

\* one shift step: shift right, and XOR with 0xA001 if a set bit fell out
RefShift(reg) ==
    LET shifted == [i \in 0..15 |-> IF i = 15 THEN FALSE ELSE reg[i + 1]]
    IN IF reg[0] THEN [i \in 0..15 |-> shifted[i] # BitOf(40961, i)] ELSE shifted

RECURSIVE RefShifts(_, _)
RefShifts(reg, n) ==
    IF n = 0 THEN reg
    ELSE CHOOSE r \in {RefShifts(s, n - 1) : s \in {RefShift(reg)}} : TRUE

\* a byte XORed into the low byte of crc, then eight shift steps
RefByte(crc, byte) ==
    CHOOSE v \in {RegValueFrom(r, 0) :
                    r \in {RefShifts(s, 8) :
                             s \in {[i \in 0..15 |-> IF i < 8 THEN BitOf(crc, i) # BitOf(byte, i)
                                                      ELSE BitOf(crc, i)]}}} : TRUE

\* the reference checksum continued from crc over the bytes lo + 1 .. hi of
\* data; the range is halved so that the evaluation stays shallow
RECURSIVE RefCrcRange(_, _, _, _)
RefCrcRange(data, lo, hi, crc) ==
    IF hi <= lo THEN crc
    ELSE IF hi = lo + 1 THEN RefByte(crc, data[hi])
    ELSE LET mid == (lo + hi) \div 2
         IN CHOOSE r \in {RefCrcRange(data, mid, hi, c) :
                            c \in {RefCrcRange(data, lo, mid, crc)}} : TRUE

\* the reference checksum of the first n bytes of data
RefCrc(data, n) == RefCrcRange(data, 0, n, 65535)

\* C14: calculateModbusCRC is the Modbus CRC-16: 0xFFFF for the empty
\* sequence, and for every sequence the value of the sequence without its
\* last byte, with that byte XORed into the low byte and eight shift steps
\* with the conditional XOR 0xA001 applied; it agrees with the reference on
\* every prefix of every frame on the bus and on the published check values,
\* and stays within 0..0xFFFF.
C14_ModbusCrc16 ==
    /\ calculateModbusCRC(<<>>) = 65535
    /\ calculateModbusCRC(<<49, 50, 51, 52, 53, 54, 55, 56, 57>>) = 19255     \* 0x4B37
    /\ calculateModbusCRC(<<1, 3, 0, 0, 0, 10>>) = 52677                      \* 0xCDC5
    /\ \A h \in 1..Len(stream.handed) :
          LET f == stream.handed[h]
          IN /\ \A n \in 1..Len(f) :
                   \E crc \in {calculateModbusCRC(SubSeq(f, 1, n))},
                      before \in {calculateModbusCRC(SubSeq(f, 1, n - 1))} :
                      /\ crc \in 0..65535
                      /\ crc = RefByte(before, f[n])
             /\ calculateModbusCRC(SubSeq(f, 1, Len(f) - 2)) = RefCrc(f, Len(f) - 2)

\* a telemetry frame with registers 0xFFFF and 0x7FFF was checked and handed
\* over, its CRC bytes being those of the reference
C14_Witness ==
    /\ stream.handed = <<Telemetry(65535, 32767, 32767)>>
    /\ stream.handed[1][40] + 256 * stream.handed[1][41] = RefCrc(stream.handed[1], 39)

\* C4: once the transport is open, the framer cannot stay without a decoded
\* frame forever while well-formed CRC-valid frames keep arriving: whatever
\* the buffer holds after damaged or partial frames, a frame is eventually
\* handed to processPacket.
C4_RecoversAlignment == (TransportOpen /\ packets = <<>>) ~> (packets # <<>>)

-----------------------------------------------------------------------------
(* Update gate and link-alive properties; gate is the record of the last   *)
(* step of a processPacket invocation                                       *)

\* C5: an attempt for a key that comes less than updateInterval after the
\* last accepted emission of that key (at any time, 0 included) is
\* suppressed and leaves the key's timestamp unchanged, and an attempt that
\* comes updateInterval or more after it is accepted.
C5_Throttled ==
    \A n \in 1..Len(gate.decisions) :
        LET d == gate.decisions[n]
        IN d.known =>
              IF d.now - d.prev < updateInterval
              THEN /\ ~d.accepted
                   /\ d.key \in DOMAIN lastUpdate
                   /\ lastUpdate[d.key] = d.prev
              ELSE d.accepted

\* C6: an attempt for a key that has no entry in lastUpdate is accepted.
C6_FirstEmissionPasses ==
    \A n \in 1..Len(gate.decisions) :
        ~gate.decisions[n].had => gate.decisions[n].accepted

\* a key without an entry was accepted at a time other than 0, under the
\* ten-second interval
C6_Witness ==
    /\ updateInterval = 10000
    /\ \E n \in 1..Len(gate.decisions) :
          /\ ~gate.decisions[n].had
          /\ gate.decisions[n].accepted
          /\ gate.decisions[n].now = 5000

\* C7: an accepted attempt sets lastUpdate[key] to now, a suppressed attempt
\* leaves lastUpdate[key] as it was, and the invocation that recorded a
\* timestamp for a key emits that key's value when it resumes.
C7_TimestampWithEmission ==
    /\ \A n \in 1..Len(gate.decisions) :
          LET d == gate.decisions[n]
          IN /\ d.key \in DOMAIN lastUpdate
             /\ lastUpdate[d.key] = IF d.accepted THEN d.now ELSE d.entry
             /\ ~d.accepted => d.had
    /\ gate.resumed =>
          /\ gate.emitted
          /\ gate.key \in DOMAIN states
          /\ states[gate.key].val = gate.value

\* C9: info.connection becomes true and lastDataReceived is refreshed in
\* the step that hands a frame with address 0x01 to processPacket, and in no
\* other step; a step that hands only frames of other addresses changes
\* neither.
C9_LinkAlive ==
    [][LET handedNow == Len(packets') > Len(packets)
           master == handedNow /\ \E n \in DOMAIN stream'.handed : stream'.handed[n][1] = 1
       IN /\ master => (connection' /\ lastDataReceived' = clock)
          /\ (handedNow /\ ~master) => UNCHANGED <<connection, lastDataReceived>>
          /\ (~connection /\ connection') => master
          /\ lastDataReceived' # lastDataReceived => master]_vars

\* a frame of device 16 was handed five seconds after the link was raised by
\* a frame of device 1, and left the link-alive time as it was
C9_Witness ==
    /\ stream.handed = <<Status12>>
    /\ connection
    /\ lastDataReceived = 0
    /\ clock = 5000

-----------------------------------------------------------------------------
(* Decoder properties; the records of a frame are those of the invocation  *)
(* that holds it                                                            *)

\* updates[key].value of the record set ups
ValueOf(ups, key) == ups[CHOOSE i \in DOMAIN ups : ups[i].key = key].value

HasKey(ups, key) == \E i \in DOMAIN ups : ups[i].key = key

\* the unsigned 16-bit register at the 0-based offset off of the frame f
Raw(f, off) == 256 * f[off + 1] + f[off + 2]

\* the same register as a two's-complement number
SignedRaw(f, off) == IF Raw(f, off) >= 32768 THEN Raw(f, off) - 65536 ELSE Raw(f, off)

\* C15: for every 0x24 frame in processPacket, pack_voltage is the unsigned
\* register at bytes 3..4 over 100 and current is the two's-complement
\* register at bytes 5..6 over 100 (5200 gives 52.00 V, 0xFF6A gives
\* -1.50 A), and these are the values written to the states.
C15_VoltageAndCurrent ==
    \A p \in DOMAIN packets :
        LET f == packets[p].buffer
            folder == "bms_" \o ToString(f[1] - 1)
            ups == Updates(f)
            volts == [n |-> Raw(f, 3), per |-> 100]
            amps == [n |-> SignedRaw(f, 5), per |-> 100]
        IN f[3] = 36 =>
              /\ HasKey(ups, folder \o ".pack_voltage")
              /\ HasKey(ups, folder \o ".current")
              /\ ValueOf(ups, folder \o ".pack_voltage") = volts
              /\ ValueOf(ups, folder \o ".current") = amps
              /\ (f[4] = 20 /\ f[5] = 80) => volts = [n |-> 5200, per |-> 100]
              /\ (f[6] = 255 /\ f[7] = 106) => amps = [n |-> -150, per |-> 100]
              /\ (gate.emitted /\ gate.key = folder \o ".pack_voltage") =>
                    (gate.value = volts /\ states[gate.key].val = volts)
              /\ (gate.emitted /\ gate.key = folder \o ".current") =>
                    (gate.value = amps /\ states[gate.key].val = amps)

\* the frame with the registers 5200 and 0xFF6A has had 52.00 V and -1.50 A
\* written to its states
C15_Witness ==
    /\ Len(packets) = 1
    /\ packets[1].buffer = Pack24
    /\ gate.emitted
    /\ gate.key = "bms_0.current"
    /\ states["bms_0.current"].val = [n |-> -150, per |-> 100]
    /\ states["bms_0.pack_voltage"].val = [n |-> 5200, per |-> 100]

\* the temperature records of a frame: name and 0-based register offset
TemperatureFields(f) ==
    IF f[3] = 36
    THEN {<<"average_cell_temp", 21>>, <<"max_cell_temp", 27>>, <<"min_cell_temp", 29>>}
    ELSE IF f[3] = 52
    THEN {<<"cell_temp_1", 35>>, <<"cell_temp_2", 37>>, <<"cell_temp_3", 39>>,
          <<"cell_temp_4", 41>>, <<"case_temp", 51>>, <<"power_temp", 53>>}
    ELSE {}

CellsSet(lo, hi) ==
    {i \in 1..8 : BitOf(lo, i - 1)} \cup {i \in 9..16 : BitOf(hi, i - 9)}

\* list holds exactly the numbers of set, as decimal strings, in ascending order
AscendingListOf(list, set) ==
    /\ Len(list) = Cardinality(set)
    /\ \A k \in 1..Len(list) :
          \E i \in set : /\ Cardinality({j \in set : j < i}) = k - 1
                         /\ list[k] = ToString(i)

\* the labels of the voltage event byte other than the cell high voltage alarm
OtherVoltageLabels ==
    {"Cell Over Voltage Protection", "Cell Low Voltage Alarm", "Cell Under Voltage Protection",
     "Pack High Voltage Alarm", "Pack Over Voltage Protection", "Pack Low Voltage Alarm",
     "Pack Under Voltage Protection"}

Range(seq) == {seq[i] : i \in DOMAIN seq}

\* C17: for every 0x12 frame in processPacket, the low-voltage, high-voltage
\* and balancing lists hold exactly the cells whose bit is set in the bytes
\* 3/4, 5/6 and 9/10 (cells 1..8 from the first byte, 9..16 from the second),
\* in ascending order without duplicates; 'Cell High Voltage Alarm' is among
\* the alarms exactly if bit 0 of byte 12 is set, and with byte 12 = 0x01 no
\* other voltage event label is present.
C17_AlarmBitmaps ==
    \A p \in DOMAIN packets :
        LET f == packets[p].buffer
            labels == Range(activeAlarms(f)) \cup Range(activeProtections(f))
        IN f[3] = 18 =>
              /\ AscendingListOf(lowVoltageCells(f), CellsSet(f[4], f[5]))
              /\ AscendingListOf(highVoltageCells(f), CellsSet(f[6], f[7]))
              /\ AscendingListOf(balancingCells(f), CellsSet(f[10], f[11]))
              /\ (f[4] = 5 /\ f[5] = 0) => lowVoltageCells(f) = <<"1", "3">>
              /\ "Cell High Voltage Alarm" \in Range(activeAlarms(f)) <=> BitOf(f[13], 0)
              /\ "Cell High Voltage Alarm" \notin Range(activeProtections(f))
              /\ f[13] = 1 => labels \cap OtherVoltageLabels = {}

\* the status frame with byte 3 = 0b00000101 and byte 12 = 0x01 has had its
\* voltage alarm cells written as "Low: 1, 3"
C17_Witness ==
    /\ Len(packets) = 1
    /\ packets[1].buffer = Status(<<5>> \o Fill(8, 0) \o <<1>> \o Fill(8, 0))
    /\ gate.emitted
    /\ gate.key = "bms_0.cell_voltage_alarms"
    /\ states[gate.key].val = "Low: 1, 3"
    /\ activeAlarms(packets[1].buffer) = <<"Cell High Voltage Alarm">>

\* the number of set bits of a byte
BitCount(byte) == Cardinality({i \in 0..7 : BitOf(byte, i)})

\* the names of the records of a 0x12 frame
StatusNames ==
    {"system_status", "active_balancing_cells", "cell_temperature_alarms",
     "cell_voltage_alarms", "FET_status", "active_alarms", "active_protections"}

\* C18: every 0x12 frame in processPacket yields exactly seven records, the
\* seven text records of the status names; if its bytes 3..20 are all zero,
\* every one of them has the empty value; and the alarm and protection
\* labels together, the status labels and the FET labels are never more
\* than the set bits of the bytes they are decoded from.
C18_UnsetBitsContributeNothing ==
    \A p \in DOMAIN packets :
        LET f == packets[p].buffer
            folder == "bms_" \o ToString(f[1] - 1)
            ups == Updates(f)
        IN f[3] = 18 =>
              /\ Len(ups) = 7
              /\ {ups[i].key : i \in 1..Len(ups)} = {folder \o "." \o name : name \in StatusNames}
              /\ \A i \in 1..Len(ups) : ups[i].role = "text" /\ ups[i].ctype = "string"
              /\ (\A k \in 4..21 : f[k] = 0) => \A i \in 1..Len(ups) : ups[i].value = ""
              /\ Len(activeAlarms(f)) + Len(activeProtections(f))
                    <= BitCount(f[13]) + BitCount(f[14]) + BitCount(f[15]) + BitCount(f[16])
                       + BitCount(f[17]) + BitCount(f[18]) + BitCount(f[20]) + BitCount(f[21])
              /\ Len(systemStatus(f)) <= BitCount(f[12])
              /\ Len(FETEvent(f)) <= BitCount(f[19])
              /\ (gate.emitted /\ (\A k \in 4..21 : f[k] = 0)) =>
                    (gate.value = "" /\ states[gate.key].val = "")

\* the status frame with all status bytes zero has had empty values written
\* for its records up to active_alarms
C18_Witness ==
    /\ Len(packets) = 1
    /\ packets[1].buffer = Status(Fill(18, 0))
    /\ gate.emitted
    /\ gate.key = "bms_0.active_alarms"
    /\ \A name \in StatusNames \ {"active_protections"} :
          /\ HasKey(Updates(packets[1].buffer), "bms_0." \o name)
          /\ "bms_0." \o name \in DOMAIN states
          /\ states["bms_0." \o name].val = ""

\* C19: every frame that processStream hands to processPacket has one of
\* the pairs (0x04,0x24), (0x04,0x34), (0x01,0x12) of function and subtype
\* and yields 16, 22 and 7 records respectively, never the empty record set;
\* the record set depends on byte 2 and not on the function byte.
C19_DispatchAlwaysHits ==
    LET Decoded(f) ==
            /\ \/ (f[2] = 4 /\ f[3] = 36 /\ Len(Updates(f)) = 16)
               \/ (f[2] = 4 /\ f[3] = 52 /\ Len(Updates(f)) = 22)
               \/ (f[2] = 1 /\ f[3] = 18 /\ Len(Updates(f)) = 7)
            /\ Updates(f) # <<>>
            /\ \A fn \in {0, 255} : Updates([f EXCEPT ![2] = fn]) = Updates(f)
    IN /\ \A p \in DOMAIN packets : Decoded(packets[p].buffer)
       /\ \A h \in DOMAIN stream.handed :
             \E p \in DOMAIN packets : packets[p].buffer = stream.handed[h]
       /\ \A k \in DOMAIN stream.validated :
             stream.validated[k].buf[3] \in {36, 52, 18}

\* a CRC-valid frame with function 0x01 and subtype 0x24 went through the
\* framer while a cell-detail frame with its 22 records was being processed
C19_Witness ==
    /\ Len(packets) = 1
    /\ packets[1].buffer = Cell34
    /\ Len(Updates(packets[1].buffer)) = 22
    /\ stream.data = Frame(1, 1, 36, Fill(36, 0))
    /\ stream.validated = <<>>
    /\ stream.handed = <<>>

-----------------------------------------------------------------------------
(* Chunked delivery, teardown and malformed input                           *)

\* processStream(data) entered with the buffer before handed the frames
\* handed and left the buffer after; the same comes out of processStream on
\* the first k bytes followed by processStream on the rest, for every k, and
\* out of one call from an empty buffer on the bytes of before followed by
\* data
ChunkIndependent(before, data, handed, after) ==
    /\ \A k \in 0..Len(data) :
          \E first \in {Framed(before, SubSeq(data, 1, k))} :
             \E second \in {Framed(first.buffer, SubSeq(data, k + 1, Len(data)))} :
                /\ first.handed \o second.handed = handed
                /\ second.buffer = after
    /\ \E whole \in {Framed(<<>>, before \o data)} :
          /\ whole.handed = handed
          /\ whole.buffer = after

\* C21: the frames handed to processPacket and the final buffer are the same
\* for every way of splitting a byte stream into chunks passed to successive
\* processStream calls; a call starts from the buffer the call before it
\* left, and between two calls nothing but onUnload's reset changes the
\* buffer.
C21_ChunkingIndependence ==
    [][/\ stream'.data # <<>> =>
             /\ stream'.before = buffer
             /\ ChunkIndependent(stream'.before, stream'.data, stream'.handed, buffer')
       /\ buffer' # buffer =>
             \/ stream'.data # <<>>
             \/ isShuttingDown' /\ buffer' = <<>>]_vars

\* a frame that arrived in two chunks has been handed over by the second call
C21_Witness ==
    /\ stream.before = SubSeq(Alarm12, 1, 12)
    /\ stream.data = SubSeq(Alarm12, 13, 23)
    /\ stream.handed = <<Alarm12>>
    /\ buffer = <<>>

\* C22: bytes buffered before a TCP 'close' are never combined with bytes
\* received after the reconnect: when connectTcp opens the new socket, the
\* framer's buffer is empty.
C22_FreshBufferOnReconnect ==
    [][(socket = "closed" /\ socket' = "open") => buffer' = <<>>]_vars

\* bursts that hold no well-formed frame: line noise, truncated frames,
\* frames with a header that is not accepted, frames with a bad CRC
Malformed == (Glitches \ NoisyFrames) \ {Corrupt(Pack24) \o Pack24}

\* C23: processStream runs its loop to the end for whatever bytes it is
\* given: it consumes every byte of the chunk and leaves the buffer, the
\* candidates and the handed frames of its last iteration; a malformed burst
\* (bad header, bad CRC, truncated frame) that arrives at an empty buffer
\* hands nothing to processPacket, and a candidate that failed the CRC check
\* is in no processPacket invocation.
C23_MalformedDecodesNothing ==
    stream.data # <<>> =>
        /\ \E last \in {Framed(stream.before, stream.data)} :
              /\ last.fed = Len(stream.data)
              /\ last.buffer = buffer
              /\ last.validated = stream.validated
              /\ last.handed = stream.handed
        /\ (stream.before = <<>> /\ stream.data \in Malformed) => stream.handed = <<>>
        /\ \A n \in DOMAIN stream.validated :
              ~stream.validated[n].ok =>
                 \A p \in DOMAIN packets :
                    packets[p].buffer #
                       Slice(stream.validated[n].buf, stream.validated[n].length)

\* a status frame with a damaged payload byte has been consumed whole and no
\* invocation was started
C23_Witness ==
    /\ stream.data = Corrupt(Status12)
    /\ stream.before = <<>>
    /\ Len(stream.validated) = 1
    /\ ~stream.validated[1].ok
    /\ stream.handed = <<>>
    /\ packets = <<>>
    /\ buffer = <<>>

\* C24: a candidate that fails the CRC check changes nothing but the working
\* buffer: lastUpdate, knownIds, lastDataReceived and info.connection keep
\* their values, no invocation of processPacket is started, no state is
\* written, and the buffer keeps none of the candidate's bytes, only the bytes
\* that came after it.
C24_MismatchTouchesBufferOnly ==
    [][(buffer = <<>> /\ stream'.data \in Mismatched) =>
          /\ UNCHANGED <<lastUpdate, knownIds, lastDataReceived, connection, states,
                         packets>>
          /\ stream'.handed = <<>>
          /\ Len(stream'.validated) = 1
          /\ ~stream'.validated[1].ok
          /\ stream'.validated[1].after = <<>>
          /\ buffer' = SubSeq(stream'.data, 24, Len(stream'.data))]_vars

\* a damaged status frame arrived while lastUpdate had entries and the link
\* was reported alive, five seconds after the last good frame
C24_Witness ==
    /\ stream.data = Corrupt(Alarm12)
    /\ stream.before = <<>>
    /\ ~stream.validated[1].ok
    /\ lastUpdate # EmptyObject
    /\ connection
    /\ clock = 5000
    /\ lastDataReceived = 0

-----------------------------------------------------------------------------
(* Watchdog and update gate                                                 *)

\* C25: the watchdog sets info.connection to false only when more than
\* dataTimeout has passed since the last frame of device index 0, so never
\* while such frames arrive at most 10 s apart; and while the watchdog runs,
\* info.connection is true at most dataTimeout plus one check period (15 s)
\* after the last such frame, and for less than that once the check that is
\* due has run.
C25_Watchdog ==
    [][/\ (connection /\ ~connection' /\ ready /\ ~isShuttingDown') =>
             clock - lastDataReceived > dataTimeout
       /\ (dataCheckInterval' # NoTimer /\ connection') =>
             clock' - lastDataReceived' <= dataTimeout + dataCheckPeriod
       /\ (dataCheckInterval' # NoTimer /\ connection' /\ ~TimerDue') =>
             clock' - lastDataReceived' < dataTimeout + dataCheckPeriod]_vars

\* the last frame of device index 0 came at 2.5 s; the check at 10 s left the
\* link alive and the check at 15 s has cleared it
C25_Witness ==
    /\ ready
    /\ ~isShuttingDown
    /\ lastDataReceived = 2500
    /\ clock = 15000
    /\ ~TimerDue
    /\ ~connection

Changed(old, new) == {k \in DOMAIN new : k \notin DOMAIN old \/ old[k] # new[k]}

\* the key is in the folder of the device of the invocation pkt
InFolderOf(key, pkt) ==
    LET prefix == bmsFolder(At(pkt.buffer, 0) - 1) \o "."
    IN Len(key) > Len(prefix) /\ SubSeq(key, 1, Len(prefix)) = prefix

\* C26: a step of the invocation for a frame of device index i writes only
\* lastUpdate entries and states whose key starts with bms_i, writes at most
\* one timestamp, that of the key the gate accepted, and every gate decision
\* follows from the entry of its own key alone; so a frame of one device
\* neither suppresses nor alters the emissions of another.
C26_GatePerKeyAndDevice ==
    [][/\ \A k \in Changed(lastUpdate, lastUpdate') \cup Changed(states, states') :
             \E p \in DOMAIN packets :
                packets[p].wait = "tick" /\ InFolderOf(k, packets[p])
       /\ \A k \in Changed(lastUpdate, lastUpdate') :
             /\ Changed(lastUpdate, lastUpdate') = {k}
             /\ \E n \in 1..Len(gate'.decisions) :
                   /\ gate'.decisions[n].key = k
                   /\ gate'.decisions[n].accepted
                   /\ lastUpdate'[k] = gate'.decisions[n].now
       /\ \A k \in Changed(states, states') :
             Changed(states, states') = {k} /\ gate'.emitted /\ gate'.key = k
       /\ packets' # packets =>
             \A n \in 1..Len(gate'.decisions) :
                LET d == gate'.decisions[n]
                IN d.accepted <=>
                      (~d.had \/ d.entry = 0 \/ d.now - d.entry >= updateInterval)]_vars

\* a key of device 16 was accepted for the first time while the keys of
\* device 1 had been stamped at the same clock value
C26_Witness ==
    /\ clock = 5000
    /\ "bms_0.system_status" \in DOMAIN lastUpdate
    /\ lastUpdate["bms_0.system_status"] = 5000
    /\ \E n \in 1..Len(gate.decisions) :
          /\ gate.decisions[n].key = "bms_15.system_status"
          /\ gate.decisions[n].accepted
          /\ gate.decisions[n].now = 5000

\* C27: onReady sets the gate interval to 1000 ms times the configured
\* update_interval when that is a non-zero number and to 5000 ms otherwise;
\* the interval is strictly positive, and no later step changes it.
C27_IntervalPositiveAndFixed ==
    [][/\ (~ready /\ ready') =>
             \E cfg \in Configured :
                updateInterval' = IF cfg.kind = "number" /\ cfg.n # 0
                                  THEN 1000 * cfg.n ELSE 5000
       /\ ready => updateInterval' = updateInterval
       /\ ready' => updateInterval' > 0]_vars

\* C28: once onUnload has run, lastUpdate and knownIds are empty and stay
\* empty, also when invocations of processPacket that were suspended at an
\* await resume afterwards; before that, no entry of lastUpdate is deleted.
C28_EmptyAfterUnload ==
    [][/\ isShuttingDown' => (lastUpdate' = EmptyObject /\ knownIds' = <<>>)
       /\ ~isShuttingDown' => DOMAIN lastUpdate \subseteq DOMAIN lastUpdate']_vars

-----------------------------------------------------------------------------
(* Aligned frames                                                           *)

\* the length a header declares: payload length, three header bytes, two CRC
\* bytes
DeclaredLength(hd) == hd[3] + 5

\* C29: whenever the buffer is empty, or holds at the start of a call nothing
\* but the first bytes of a frame, and the bytes that arrive complete a
\* well-formed frame (known header, declared length 41, 57 or 23), then the
\* iteration that consumes the frame's last byte hands exactly that frame to
\* processPacket if its last two bytes are the CRC of the others, hands
\* nothing if they are not, and leaves the buffer empty, whatever was
\* processed before.
C29_AlignedFrameNotLost ==
    stream.data # <<>> =>
        \E it \in {Iterations(stream.before, stream.data)} :
           \A n \in 0..Len(stream.data) :
              LET held == it[n + 1].buffer
                  \* the buffer and the bytes still to come: how many, and
                  \* the first three
                  total == Len(held) + Len(stream.data) - n
                  hd == [i \in 1..3 |-> IF i <= Len(held) THEN held[i]
                                        ELSE stream.data[n + i - Len(held)]]
              IN (/\ n = 0 \/ held = <<>>
                  /\ total >= 5
                  /\ KnownHeader(hd)
                  /\ Len(held) < DeclaredLength(hd)
                  /\ total >= DeclaredLength(hd)) =>
                    LET len == DeclaredLength(hd)
                        f == held \o SubSeq(stream.data, n + 1, n + len - Len(held))
                        end == it[n + (len - Len(held)) + 1]
                        ok == f[len - 1] + 256 * f[len] =
                                 calculateModbusCRC(SubSeq(f, 1, len - 2))
                    IN /\ len \in {41, 57, 23}
                       /\ end.handed = it[n + 1].handed \o (IF ok THEN <<f>> ELSE <<>>)
                       /\ end.buffer = <<>>

\* a damaged frame had been consumed and had left the buffer empty after its
\* 41 bytes; the frame that began with the next byte was handed over
C29_Witness ==
    /\ Len(stream.data) = 82
    /\ AfterBytes(41).buffer = <<>>
    /\ AfterBytes(41).handed = <<>>
    /\ SubSeq(stream.data, 42, 82) = Pack24
    /\ AfterBytes(82).handed = <<Pack24>>

-----------------------------------------------------------------------------
(* Shutdown and reconnection                                                *)

\* the invocations that wait for a setObjectNotExistsAsync call to settle
Creating(pkts) == {p \in DOMAIN pkts : pkts[p].wait = "io"}

\* C31: once onUnload has set isShuttingDown, no step writes a metric state
\* and no step starts an object creation: an invocation that resumes skips
\* setState, and the number of pending setObjectNotExistsAsync calls never
\* grows.
C31_QuietAfterUnload ==
    [][isShuttingDown =>
          /\ states' = states
          /\ ~gate'.emitted
          /\ Cardinality(Creating(packets')) <= Cardinality(Creating(packets))]_vars

\* after the unload, one of two suspended invocations came back from the
\* await that followed an accepted key and skipped its setState, while the
\* other is still suspended
C31_Witness ==
    /\ isShuttingDown
    /\ gate.resumed
    /\ ~gate.emitted
    /\ Len(packets) = 2

\* C32: once onUnload has run no reconnect timer is pending and this.socket
\* holds no new socket: the 'close' of the destroyed socket starts nothing
C32_NoReconnectAfterUnload ==
    isShuttingDown => (reconnectTimeout # "armed" /\ socket = NULL)

\* C33: no object id is listed twice in knownIds, and no creation is requested
\* for an id that another invocation is already creating
C33_CreatedOnce ==
    /\ \A i, j \in DOMAIN knownIds : knownIds[i] = knownIds[j] => i = j
    /\ \A p, q \in Creating(packets) :
          AwaitedId(packets[p]) = AwaitedId(packets[q]) => p = q

\* the invocations handed earlier than p that are waiting to write key
OlderPending(p, key) ==
    {q \in 1..(p - 1) :
        /\ packets[q].pc = "emit"
        /\ Updates(packets[q].buffer)[packets[q].i].key = key}

\* C34: when an invocation writes a key, no invocation of an older frame is
\* still going to write that key
C34_FrameOrder ==
    [][\A p \in DOMAIN packets :
          (gate'.emitted /\ packets[p].pc = "emit" /\ packets[p].wait = "tick")
              => OlderPending(p, gate'.key) = {}]_vars

\* C35: at most one reconnect timer is pending, a connectTcp attempt leaves
\* none behind, and while the adapter is not shutting down a closed socket is
\* eventually replaced by a new connection attempt
C35_RetryForever ==
    /\ [](timers <= 1)
    /\ [][socket' = "open" /\ socket # "open" /\ ready => timers' = 0]_vars
    /\ (socket = "closed" /\ ~isShuttingDown) ~> (socket = "open" \/ isShuttingDown)

\* a second connection attempt has failed and its retry is pending
C35_Witness ==
    /\ ~isShuttingDown
    /\ socket = "closed"
    /\ reconnectTimeout = "armed"
    /\ timers = 1
    /\ clock = MaxClock

-----------------------------------------------------------------------------
(* Candidates and the decoder's reads *)

\* C36: a candidate is validated when the buffer holds exactly as many bytes as
\* its header declares; a candidate that passes is handed over whole, and the
\* buffer never holds a valid header with its declared length or more
C36_CandidateIsWholeBuffer ==
    /\ \A n \in DOMAIN stream.validated :
          /\ Len(stream.validated[n].buf) = stream.validated[n].length
          /\ stream.validated[n].after = <<>>
    /\ \A n \in DOMAIN stream.handed :
          \E m \in DOMAIN stream.validated :
              stream.validated[m].ok /\ stream.validated[m].buf = stream.handed[n]
    /\ (Len(buffer) >= 5 /\ isValidHeader(buffer)) => Len(buffer) < getExpectedLength(buffer)

\* a call validated a failed candidate and then a pack frame that passed
C36_Witness ==
    /\ Len(stream.validated) = 2
    /\ ~stream.validated[1].ok
    /\ stream.validated[2].ok
    /\ stream.validated[2].length = 41
    /\ Len(stream.handed) = 1

\* byte values at and next to every limit the header test and the length
\* table compare with
HeaderBytes == {0, 1, 2, 4, 5, 15, 16, 17, 18, 19, 35, 36, 37, 51, 52, 53, 255}

\* five-byte buffers that begin with every combination of those values
ProbedHeaders == {<<a, f, s, 0, 0>> : a \in HeaderBytes, f \in HeaderBytes, s \in HeaderBytes}

\* C38: no buffer that isValidHeader accepts has the declared length 0, so no
\* candidate is validated with length 0 and none is discarded for it
C38_ValidHeaderHasLength ==
    /\ \A b \in ProbedHeaders : isValidHeader(b) => getExpectedLength(b) \in {41, 57, 23}
    /\ (Len(buffer) >= 5 /\ isValidHeader(buffer)) => getExpectedLength(buffer) # 0
    /\ \A n \in DOMAIN stream.validated :
          /\ isValidHeader(stream.validated[n].buf)
          /\ stream.validated[n].length = getExpectedLength(stream.validated[n].buf)
          /\ stream.validated[n].length # 0

\* a valid header waits in the buffer for the rest of its frame, left there by
\* a 'data' event that validated nothing
C38_Witness ==
    /\ Len(buffer) >= 5
    /\ isValidHeader(buffer)
    /\ getExpectedLength(buffer) = 41
    /\ stream.validated = <<>>
    /\ glitches = 1

\* C37: the records decoded from a frame are the same when every byte outside
\* its payload (the three header bytes and the two CRC bytes) is replaced by
\* its complement, and the frame handed to the decoder has exactly the declared
\* length: every field is read from the offsets 3 .. length - 3
C37_ReadsInsidePayload ==
    \A p \in DOMAIN packets :
        LET b == packets[p].buffer
            length == getExpectedLength(b)
            payload == 3..(length - 3)
            scrambled == [i \in 1..Len(b) |-> IF (i - 1) \in payload THEN b[i] ELSE 255 - b[i]]
            branch(buf) == IF At(b, 2) = 36 THEN Updates24(buf, "bms")
                           ELSE IF At(b, 2) = 52 THEN Updates34(buf, "bms")
                           ELSE Updates12(buf, "bms")
        IN /\ length \in {41, 57, 23}
           /\ Len(b) = length
           /\ branch(scrambled) = branch(b)
           /\ Len(Updates(b)) = Len(branch(b))

\* the invocation for a cell frame has reached its last record, power_temp,
\* read at the offsets 53 and 54
C37_Witness ==
    /\ Len(packets) = 1
    /\ packets[1].pc = "emit"
    /\ At(packets[1].buffer, 2) = 52
    /\ packets[1].i = 22
    /\ Updates(packets[1].buffer)[22].value.n # -27315

=============================================================================
